---- MODULE Spec2Model ----
(***************************************************************************)
(* The publish/download pipeline of the ghostcrate registry server:        *)
(* publish_handler and download_handler (src/web/cargo_handlers.rs) over   *)
(* the blob store (src/storage/mod.rs) and the SQLite catalog              *)
(* (src/db/mod.rs).  Every await point of a handler that touches the blob  *)
(* store or the catalog is one step, so concurrent requests interleave     *)
(* exactly where the tokio tasks of the server can.                        *)
(***************************************************************************)
EXTENDS Integers, Sequences, FiniteSets, TLC

(* ------------------------------ bounds -------------------------------- *)

\* Number of parts in the multipart body of a publish request.
MaxParts == 2

\* Number of requests the server handles at the same time.
MaxReq == 2

\* Cap of a crate's downloads counter (an i64 in the code).
MaxDownloads == 2

\* Principals (users.id of the authenticated session).
Users == {"userA", "userB"}

\* Package names and version strings a publish request may carry.
Names == {"acme"}

Versions == {"1.0.0", "2.0.0"}

\* Archive contents: two archives of different length.
Archives == {<<1>>, <<1, 2>>}

StorageBackends == {"Local", "S3"}

\* The q parameter of a search: a part of a name, and a string no name has.
Queries == {"cm", "zz"}

\* The catalog the search is checked against: its package names, their
\* descriptions (NULL or a text) and the requests a client sends.
SearchNames == {"acme", "ac", "Zeta"}

Descriptions == {<<>>, <<"a cat">>}

SearchQueries == {"", "AC", "z", "c_", "zz"}

\* Option<u32> per_page and page of SearchQuery.
PerPages == {<<>>, <<0>>, <<1>>, <<101>>}

Pages == {<<>>, <<0>>, <<2>>}

(* --------------------------- pure functions --------------------------- *)

\* Sha256 + format!("{:x}"): a collision-free digest, modelled as the
\* positional (injective) encoding of the byte string.
RECURSIVE Sha256(_)
Sha256(data) ==
    IF data = <<>> THEN 0
    ELSE 4 * Sha256(SubSeq(data, 1, Len(data) - 1)) + data[Len(data)]

\* format!("{}-{}.crate", name, version)
crate_filename(name, version) == name \o "-" \o version \o ".crate"

\* Storage::get_local_crate_path: {local_path}/crates/{name}/{name}-{version}.crate
get_local_crate_path(name, version) ==
    "crates/" \o name \o "/" \o crate_filename(name, version)

\* The S3 object key store_crate puts to:
\* format!("crates/{}/{}/{}", name, version, filename).
s3_key(name, version) ==
    "crates/" \o name \o "/" \o version \o "/" \o crate_filename(name, version)

\* A reader that looks for the object next to the others of its crate.
s3_object_key_flat(name, version) ==
    "crates/" \o name \o "/" \o crate_filename(name, version)

\* The S3 object key get_crate_data, crate_exists and get_crate_size ask for:
\* format!("crates/{}/{}/{}-{}.crate", name, version, name, version).
s3_object_key(name, version) ==
    "crates/" \o name \o "/" \o version \o "/" \o name \o "-" \o version \o ".crate"

\* The parts a multipart body may hold.  A crate part carries an archive or
\* breaks off while it is read; a metadata part carries a JSON object with
\* every field of PublishRequest, one without vers, or text that is no
\* JSON; a part of any other name is ignored.
Part(field, text, name, vers, data) ==
    [field |-> field, text |-> text, name |-> name, vers |-> vers, data |-> data]

Parts ==
    {Part("crate", "bytes", "", "", d) : d \in Archives}
       \cup {Part("crate", "truncated", "", "", <<>>)}
       \cup {Part("metadata", "object", n, v, <<>>) : n \in Names, v \in Versions}
       \cup {Part("metadata", t, "", "", <<>>) : t \in {"no_vers", "not_json"}}
       \cup {Part("readme", "bytes", "", "", <<>>)}

Bodies == UNION {[1..k -> Parts] : k \in 0..MaxParts}

\* field.bytes().await, and for metadata String::from_utf8 and
\* serde_json::from_str::<PublishRequest>, all succeed.
field_ok(field) ==
    \/ field.field = "crate" /\ field.text = "bytes"
    \/ field.field = "metadata" /\ field.text = "object"

\* while let Some(field) = multipart.next_field(): a later part of a name
\* replaces an earlier one, the first part that fails ends the loop.
\* An Option is a sequence of length 0 or 1.
RECURSIVE next_field(_, _, _)
next_field(fields, crate_file, metadata) ==
    IF fields = <<>>
    THEN [err |-> FALSE, crate_file |-> crate_file, metadata |-> metadata]
    ELSE LET field == Head(fields) IN
         IF field.field \notin {"crate", "metadata"}
         THEN next_field(Tail(fields), crate_file, metadata)
         ELSE IF ~field_ok(field)
         THEN [err |-> TRUE, crate_file |-> crate_file, metadata |-> metadata]
         ELSE IF field.field = "crate"
         THEN next_field(Tail(fields), <<field.data>>, metadata)
         ELSE next_field(Tail(fields), crate_file,
                         <<[name |-> field.name, vers |-> field.vers]>>)

\* What the handler goes on with, had it written unwrap_or_default().
parse_or_default(body) ==
    LET r == next_field(body, <<>>, <<>>) IN
    [ok |-> ~r.err,
     data |-> IF r.crate_file = <<>> THEN <<>> ELSE r.crate_file[1],
     name |-> IF r.metadata = <<>> THEN "" ELSE r.metadata[1].name,
     vers |-> IF r.metadata = <<>> THEN "" ELSE r.metadata[1].vers]

\* The parse of publish_handler: the loop, then
\* crate_file.ok_or(BAD_REQUEST)? and metadata.ok_or(BAD_REQUEST)?.
parse(body) ==
    LET r == next_field(body, <<>>, <<>>) IN
    [ok |-> ~r.err /\ r.crate_file # <<>> /\ r.metadata # <<>>,
     data |-> IF r.crate_file = <<>> THEN <<>> ELSE r.crate_file[1],
     name |-> IF r.metadata = <<>> THEN "" ELSE r.metadata[1].name,
     vers |-> IF r.metadata = <<>> THEN "" ELSE r.metadata[1].vers]

\* The bodies answered 400, and what the others parse to.
MalformedBodies == {b \in Bodies : ~parse(b).ok}

ParsedRequests == {parse(b) : b \in Bodies \ MalformedBodies}

\* SQLite folds the ASCII upper case letters for LIKE.
to_lower(ch) ==
    IF ch = "A" THEN "a" ELSE IF ch = "C" THEN "c" ELSE IF ch = "Z" THEN "z" ELSE ch

\* text LIKE pattern, as SQLite evaluates it: % stands for any run of
\* characters, _ for any one character, letters match whatever their case.
RECURSIVE like(_, _)
like(text, pattern) ==
    IF pattern = "" THEN text = ""
    ELSE LET p    == SubSeq(pattern, 1, 1)
             rest == SubSeq(pattern, 2, Len(pattern))
         IN  IF p = "%"
             THEN \/ like(text, rest)
                  \/ text # "" /\ like(SubSeq(text, 2, Len(text)), pattern)
             ELSE /\ text # ""
                  /\ p = "_" \/ to_lower(SubSeq(text, 1, 1)) = to_lower(p)
                  /\ like(SubSeq(text, 2, Len(text)), rest)

\* let search_pattern = format!("%{}%", query);
search_pattern(query) == "%" \o query \o "%"

\* The characters of the names, in the order of their bytes.
Ascii == <<"-", "/", "A", "C", "Z", "_", "a", "c", "e", "m", "t", "z">>

ord(ch) == CHOOSE i \in 1..Len(Ascii) : Ascii[i] = ch

\* a < b in the BINARY collation of column name: memcmp, the shorter first.
RECURSIVE bytes_lt(_, _)
bytes_lt(a, b) ==
    IF b = "" THEN FALSE
    ELSE IF a = "" THEN TRUE
    ELSE LET x == ord(SubSeq(a, 1, 1))
             y == ord(SubSeq(b, 1, 1))
         IN  \/ x < y
             \/ x = y /\ bytes_lt(SubSeq(a, 2, Len(a)), SubSeq(b, 2, Len(b)))

\* Option::unwrap_or, an Option being a sequence of length 0 or 1.
unwrap_or(option, default) == IF option = <<>> THEN default ELSE option[1]

Min(a, b) == IF a <= b THEN a ELSE b

\* let per_page = params.per_page.unwrap_or(10).min(100) as i64;
per_page_of(per_page) == Min(unwrap_or(per_page, 10), 100)

\* let page = params.page.unwrap_or(1) as i64;
page_of(page) == unwrap_or(page, 1)

\* let offset = (page - 1) * per_page;   (i64: no value of a u32 page and
\* a per_page of at most 100 overflows it)
offset_of(page, per_page) == (page_of(page) - 1) * per_page_of(per_page)

VARIABLES
    backend,         \* StorageConfig.backend, fixed at startup
    files,           \* local filesystem: path -> bytes, for the paths that exist
    objects,         \* S3 bucket: key -> bytes, for the objects that exist
    crates,          \* rows of table crates
    crate_versions,  \* rows of table crate_versions
    inflight,        \* the requests being handled: pairs <<request, copy number>>
    out,             \* the response the latest step sent, if it sent one
    accepted,        \* history: the publishes answered 200
    admitted,        \* history: the create_crate inserts the table admitted
    last_failed,     \* history a retrying client keeps: its publish that failed
    served,          \* history a download client keeps: the downloads answered 200
    sessions,        \* rows of table sessions
    now,             \* Utc::now(), in session lifetimes' units
    presented,       \* the Authorization header of the request the latest step took in
    logged_out,      \* history: the tokens a logout was answered 200 for
    organizations,          \* rows of table organizations
    organization_members,   \* rows of table organization_members
    organization_invites    \* rows of table organization_invites

vars ==
    <<backend, files, objects, crates, crate_versions, inflight, out, accepted, admitted,
      last_failed, served, sessions, now, presented, logged_out,
      organizations, organization_members, organization_invites>>

\* Storage::get_crate_path: the local path, or for S3 a placeholder path.
get_crate_path(name, version) ==
    IF backend = "Local" THEN get_local_crate_path(name, version)
    ELSE "s3://" \o name \o "/" \o version

Put(m, k, v) == [x \in DOMAIN m \cup {k} |-> IF x = k THEN v ELSE m[x]]

\* A publish request past its parse: the authenticated user, metadata.name,
\* metadata.vers, the crate part, and the crate_model.id it has resolved.
PublishRequest(user, name, vers, data) ==
    [kind |-> "publish", pc |-> "resolve", user |-> user, name |-> name,
     vers |-> vers, data |-> data, crate_id |-> 0]

\* A download request: the Path((crate_name, version)) extractor.
DownloadRequest(name, vers) ==
    [kind |-> "download", pc |-> "lookup", user |-> "", name |-> name,
     vers |-> vers, data |-> <<>>, crate_id |-> 0]

NoResponse == [resp |-> "none"]

\* What a publish request is to its client: principal, name, version, bytes.
PublishOf(user, name, vers, data) ==
    [user |-> user, name |-> name, vers |-> vers, data |-> data]

NoPublish == PublishOf("", "", "", <<>>)

\* What the client of request q receives: the status, the body of a
\* download, and whether the status reports a failed backend call.
Response(q, status, body, fault) ==
    [resp |-> status, kind |-> q.kind, user |-> q.user, name |-> q.name,
     vers |-> q.vers, data |-> q.data, body |-> body, fault |-> fault]

\* The requests being handled form a multiset (two clients may send the same
\* request): the k-th copy of request q is the pair <<q, k>>.
Requests == {p[1] : p \in inflight}

CopiesIn(B, q) == Cardinality({p \in B : p[1] = q})

AddTo(B, q) == B \cup {<<q, CopiesIn(B, q) + 1>>}

RemoveFrom(B, q) == B \ {<<q, CopiesIn(B, q)>>}

\* A task can be spawned for one more request.
CanArrive == Cardinality(inflight) < MaxReq

\* Request q is taken up and awaits its next call.
Arrive(q) ==
    /\ inflight' = AddTo(inflight, q)
    /\ out' = NoResponse

\* A handler that ignores the failure of its first call and carries on.
RejectIgnored(q, status, fault) == Arrive(q)

\* Request q is answered by its first call already.
Reject(q, status, fault) ==
    /\ UNCHANGED inflight
    /\ out' = Response(q, status, <<>>, fault)

\* Request q moves on to q2.
Step(q, q2) ==
    /\ inflight' = AddTo(RemoveFrom(inflight, q), q2)
    /\ out' = NoResponse

\* The handler of q returns status.
Respond(q, status, body, fault) ==
    /\ inflight' = RemoveFrom(inflight, q)
    /\ out' = Response(q, status, body, fault)

(* ------------------------------ catalog ------------------------------- *)

\* db::get_crate_by_name: SELECT ... FROM crates WHERE name = ?1
get_crate_by_name(name) == {c \in crates : c.name = name}

\* A crates table without the UNIQUE constraint on name.
crates_name_unchecked(name) == TRUE

\* The UNIQUE constraint of crates.name (initialize_database).
crates_name_unique(name) == \A c \in crates : c.name # name

\* A crate_versions table without its UNIQUE(crate_id, version) constraint.
crate_versions_unchecked(crate_id, version) == TRUE

\* The UNIQUE(crate_id, version) constraint of crate_versions.
crate_versions_unique(crate_id, version) ==
    \A v \in crate_versions : ~(v.crate_id = crate_id /\ v.version = version)

\* Uuid::new_v4(): an id no row has.
new_crate_id == Cardinality(crates) + 1

\* The crate row create_crate inserts.
new_crate_row(name, owner) ==
    [id |-> new_crate_id, name |-> name, description |-> <<>>, owner_id |-> owner,
     downloads |-> 0]

\* The version row create_crate_version inserts.
new_version_row(crate_id, version, data) ==
    [crate_id |-> crate_id, version |-> version,
     checksum |-> Sha256(data), file_size |-> Len(data)]

\* An increment computed by the handler from a row it read earlier, when
\* downloads was 0, and written back: UPDATE crates SET downloads = 1.
increment_download_count_stale(crate_id) ==
    {IF c.id = crate_id THEN [c EXCEPT !.downloads = 1] ELSE c : c \in crates}

\* UPDATE crates SET downloads = downloads + 1 WHERE id = ?1
increment_download_count(crate_id) ==
    {IF c.id = crate_id THEN [c EXCEPT !.downloads = c.downloads + 1] ELSE c
       : c \in crates}

(* ----------------------------- blob store ----------------------------- *)

\* Storage::crate_exists: path.exists() or a successful head_object.
crate_exists(name, version) ==
    IF backend = "Local"
    THEN get_local_crate_path(name, version) \in DOMAIN files
    ELSE s3_object_key(name, version) \in DOMAIN objects

\* Storage::get_crate_data: fs::read(path) or get_object(key).
get_crate_data(name, version) ==
    IF backend = "Local"
    THEN files[get_local_crate_path(name, version)]
    ELSE objects[s3_object_key(name, version)]

\* Storage::get_crate_size: fs::metadata(path).len() or the content_length
\* of head_object(key).
get_crate_size(name, version) ==
    IF backend = "Local"
    THEN Len(files[get_local_crate_path(name, version)])
    ELSE Len(objects[s3_object_key(name, version)])

\* A store_crate that reports success without having written.
store_crate_skipped(name, version, data) == UNCHANGED <<files, objects>>

\* Storage::store_crate, the write succeeding.
store_crate_ok(name, version, data) ==
    IF backend = "Local"
    THEN /\ files' = Put(files, get_local_crate_path(name, version), data)
         /\ UNCHANGED objects
    ELSE /\ objects' = Put(objects, s3_key(name, version), data)
         /\ UNCHANGED files

\* Storage::store_crate returning Err (create_dir_all, fs::write or
\* put_object failed): the write did not happen.
store_crate_err(name, version, data) == UNCHANGED <<files, objects>>

(* --------------------------- publish_handler -------------------------- *)

\* The multipart body lacks the crate part or the metadata part, or the
\* metadata does not parse: 400 before anything is touched.
PublishMalformed ==
    /\ CanArrive
    /\ MalformedBodies # {}
    /\ \E u \in Users :
          Reject([PublishRequest(u, "", "", <<>>) EXCEPT !.pc = "parse"],
                 "BAD_REQUEST", FALSE)
    /\ UNCHANGED <<backend, files, objects, crates, crate_versions, accepted, admitted>>

\* store_crate(metadata.name, metadata.vers, crate_file) for user; its Err
\* is answered 500.
PublishStoreOf(user, name, vers, data) ==
    \/ /\ store_crate_ok(name, vers, data)
       /\ Arrive(PublishRequest(user, name, vers, data))
    \/ /\ store_crate_err(name, vers, data)
       /\ Reject(PublishRequest(user, name, vers, data), "INTERNAL_SERVER_ERROR", TRUE)

\* Parse, checksum, then store_crate(name, vers, crate_file).
PublishStore ==
    /\ CanArrive
    /\ \E u \in Users, r \in ParsedRequests : PublishStoreOf(u, r.name, r.vers, r.data)
    /\ UNCHANGED <<backend, crates, crate_versions, accepted, admitted>>

\* A publish handler without the ownership check.
owner_mismatch_never(existing_crate, user) == FALSE

\* An ownership check that turns every publish under a registered name away.
owner_mismatch_always(existing_crate, user) == TRUE

\* if existing_crate.owner_id != user.id
owner_mismatch(existing_crate, user) == existing_crate.owner_id # user

\* match db::get_crate_by_name(...): resolve the package, check its owner.
PublishResolve(q) ==
    /\ q.kind = "publish" /\ q.pc = "resolve"
    /\ \/ \E c \in get_crate_by_name(q.name) :
             IF owner_mismatch(c, q.user)
             THEN Respond(q, "FORBIDDEN", <<>>, FALSE)
             ELSE Step(q, [q EXCEPT !.pc = "version", !.crate_id = c.id])
       \/ /\ get_crate_by_name(q.name) = {}
          /\ Step(q, [q EXCEPT !.pc = "create"])
       \/ Respond(q, "INTERNAL_SERVER_ERROR", <<>>, TRUE)
    /\ UNCHANGED <<backend, files, objects, crates, crate_versions, accepted, admitted>>

\* INSERT OR REPLACE INTO crates: a row of the name gives way.
create_crate_replacing(name, owner) ==
    crates' = {c \in crates : c.name # name} \cup {new_crate_row(name, owner)}

\* db::create_crate returning Ok: INSERT INTO crates.
create_crate_ok(name, owner) ==
    /\ crates_name_unique(name)
    /\ crates' = crates \cup {new_crate_row(name, owner)}

\* db::create_crate(pool, &metadata, user.id), any Err mapped to 500.
PublishCreate(q) ==
    /\ q.kind = "publish" /\ q.pc = "create"
    /\ \/ /\ create_crate_ok(q.name, q.user)
          /\ admitted' = admitted \cup {[name |-> q.name, user |-> q.user]}
          /\ Step(q, [q EXCEPT !.pc = "version", !.crate_id = new_crate_id])
       \/ /\ ~crates_name_unique(q.name)
          /\ Respond(q, "INTERNAL_SERVER_ERROR", <<>>, FALSE)
          /\ UNCHANGED <<crates, admitted>>
       \/ /\ Respond(q, "INTERNAL_SERVER_ERROR", <<>>, TRUE)
          /\ UNCHANGED <<crates, admitted>>
    /\ UNCHANGED <<backend, files, objects, crate_versions, accepted>>

\* INSERT OR REPLACE INTO crate_versions: a row of the key gives way.
create_crate_version_replacing(crate_id, version, data) ==
    crate_versions' =
        {v \in crate_versions : ~(v.crate_id = crate_id /\ v.version = version)}
           \cup {new_version_row(crate_id, version, data)}

\* db::create_crate_version returning Ok: INSERT INTO crate_versions.
create_crate_version_ok(crate_id, version, data) ==
    /\ crate_versions_unique(crate_id, version)
    /\ crate_versions' = crate_versions \cup
          {new_version_row(crate_id, version, data)}

\* db::create_crate_version(pool, crate_model.id, &metadata, &checksum, len),
\* any Err mapped to 500; Ok is answered 200 with empty warnings.
PublishVersion(q) ==
    /\ q.kind = "publish" /\ q.pc = "version"
    /\ \/ /\ create_crate_version_ok(q.crate_id, q.vers, q.data)
          /\ accepted' = accepted \cup
                {[name |-> q.name, vers |-> q.vers, data |-> q.data, user |-> q.user]}
          /\ Respond(q, "OK", <<>>, FALSE)
       \/ /\ ~crate_versions_unique(q.crate_id, q.vers)
          /\ Respond(q, "INTERNAL_SERVER_ERROR", <<>>, FALSE)
          /\ UNCHANGED <<crate_versions, accepted>>
       \/ /\ Respond(q, "INTERNAL_SERVER_ERROR", <<>>, TRUE)
          /\ UNCHANGED <<crate_versions, accepted>>
    /\ UNCHANGED <<backend, files, objects, crates, admitted>>

(* -------------------------- download_handler -------------------------- *)

\* An existence check that every path passes.
file_path_exists_always(name, version) == TRUE

\* file_path.exists(), file_path being get_crate_path(name, version).
file_path_exists(name, version) == get_crate_path(name, version) \in DOMAIN files

\* file_path = get_crate_path(name, version); 404 unless file_path.exists().
DownloadBegin ==
    /\ CanArrive
    /\ \E n \in Names, v \in Versions :
          IF file_path_exists(n, v)
          THEN Arrive(DownloadRequest(n, v))
          ELSE Reject(DownloadRequest(n, v), "NOT_FOUND", FALSE)
    /\ UNCHANGED <<backend, files, objects, crates, crate_versions, accepted, admitted>>

\* if let Ok(Some(crate_model)) = db::get_crate_by_name(...)
DownloadLookup(q) ==
    /\ q.kind = "download" /\ q.pc = "lookup"
    /\ \/ \E c \in get_crate_by_name(q.name) :
             Step(q, [q EXCEPT !.pc = "incr", !.crate_id = c.id])
       \/ Step(q, [q EXCEPT !.pc = "open"])
    /\ UNCHANGED <<backend, files, objects, crates, crate_versions, accepted, admitted>>

\* A handler that returns the error of the increment to the client.
increment_failure_returned(q) == Respond(q, "INTERNAL_SERVER_ERROR", <<>>, TRUE)

\* if let Err(e) = ... { tracing::warn!(...) }: the handler goes on.
increment_failure_logged(q) == Step(q, [q EXCEPT !.pc = "open", !.crate_id = 0])

\* db::increment_download_count(pool, crate_model.id); an Err is only logged.
DownloadIncrement(q) ==
    /\ q.kind = "download" /\ q.pc = "incr"
    /\ \/ /\ \A c \in crates : c.downloads < MaxDownloads
          /\ crates' = increment_download_count(q.crate_id)
          /\ Step(q, [q EXCEPT !.pc = "open", !.crate_id = 0])
       \/ /\ UNCHANGED crates
          /\ increment_failure_logged(q)
    /\ UNCHANGED <<backend, files, objects, crate_versions, accepted, admitted>>

\* tokio::fs::File::open(file_path), then the file is streamed as the body.
DownloadOpen(q) ==
    /\ q.kind = "download" /\ q.pc = "open"
    /\ \/ /\ get_crate_path(q.name, q.vers) \in DOMAIN files
          /\ Respond(q, "OK", files[get_crate_path(q.name, q.vers)], FALSE)
       \/ Respond(q, "INTERNAL_SERVER_ERROR", <<>>, TRUE)
    /\ UNCHANGED <<backend, files, objects, crates, crate_versions, accepted, admitted>>

(* --------------------------- search_handler --------------------------- *)

\* Query(params): q, per_page and page of the query string.
SearchRequest(query, per_page, page) ==
    [kind |-> "search", pc |-> "", user |-> "", name |-> query,
     vers |-> "", data |-> <<per_page, page>>, crate_id |-> 0]

\* WHERE name LIKE ?1 OR description LIKE ?1   (NULL LIKE ?1 is not true)
matching(query) ==
    {c \in crates :
        \/ like(c.name, search_pattern(query))
        \/ c.description # <<>> /\ like(c.description[1], search_pattern(query))}

\* A sort by downloads alone, lowest first.
ranks_before_ascending(a, b) ==
    \/ a.downloads < b.downloads
    \/ a.downloads = b.downloads /\ bytes_lt(a.name, b.name)

\* ORDER BY downloads DESC, name ASC
ranks_before(a, b) ==
    \/ a.downloads > b.downloads
    \/ a.downloads = b.downloads /\ bytes_lt(a.name, b.name)

RECURSIVE order_by(_)
order_by(rows) ==
    IF rows = {} THEN <<>>
    ELSE LET first == CHOOSE c \in rows : \A d \in rows \ {c} : ranks_before(c, d)
         IN  <<first>> \o order_by(rows \ {first})

\* LIMIT ?2 OFFSET ?3: SQLite takes a negative OFFSET as 0 and a negative
\* LIMIT as no limit.
limit_offset(rows, limit, offset) ==
    LET skip == IF offset < 0 THEN 0 ELSE offset
        rest == IF skip >= Len(rows) THEN <<>> ELSE SubSeq(rows, skip + 1, Len(rows))
    IN  IF limit < 0 THEN rest ELSE SubSeq(rest, 1, Min(limit, Len(rest)))

\* db::search_crates
search_crates(query, limit, offset) ==
    limit_offset(order_by(matching(query)), limit, offset)

\* db::count_search_results: SELECT COUNT(*) ... with the same WHERE
count_search_results(query) == Cardinality(matching(query))

\* db::get_crate_versions: SELECT ... FROM crate_versions WHERE crate_id = ?1
get_crate_versions(crate_id) == {v \in crate_versions : v.crate_id = crate_id}

\* The crates the search lists, in their order, each with its description,
\* its downloads and its versions, and meta.total.
SearchResponse(query, limit, offset) ==
    LET found == search_crates(query, limit, offset)
    IN  [crates |->
            [i \in 1..Len(found) |->
                [name |-> found[i].name, description |-> found[i].description,
                 downloads |-> found[i].downloads,
                 versions |-> {v.version : v \in get_crate_versions(found[i].id)}]],
         total |-> count_search_results(query)]

\* search_handler: three SELECTs and no other statement; an Err of the
\* search or of the count is answered 500.
Search(query, per_page, page) ==
    /\ \/ out' = Response(SearchRequest(query, per_page, page), "OK",
                          SearchResponse(query, per_page_of(per_page),
                                         offset_of(page, per_page)),
                          FALSE)
       \/ out' = Response(SearchRequest(query, per_page, page),
                          "INTERNAL_SERVER_ERROR", <<>>, TRUE)
    /\ UNCHANGED <<backend, files, objects, crates, crate_versions, inflight,
                   accepted, admitted>>

(* --------------------------- specification ---------------------------- *)

\* No session yet, no request through the authentication middleware yet.
NoAccounts ==
    /\ sessions = {}
    /\ now = 0
    /\ presented = <<>>
    /\ logged_out = {}
    /\ organizations = {}
    /\ organization_members = {}
    /\ organization_invites = {}

Init ==
    /\ backend \in StorageBackends
    /\ files = <<>>
    /\ objects = <<>>
    /\ crates = {}
    /\ crate_versions = {}
    /\ inflight = {}
    /\ out = NoResponse
    /\ accepted = {}
    /\ admitted = {}
    /\ last_failed = NoPublish
    /\ served = 0
    /\ NoAccounts

\* No request to an organization route.
OrganizationsUnchanged ==
    UNCHANGED <<organizations, organization_members, organization_invites>>

\* No login, no logout, no request through the authentication middleware.
AccountsUnchanged ==
    UNCHANGED <<sessions, now, presented, logged_out>> /\ OrganizationsUnchanged

\* The clients keep no history.
NoHistory == UNCHANGED <<last_failed, served>> /\ AccountsUnchanged

PublishNext ==
    \/ PublishMalformed /\ NoHistory
    \/ PublishStore /\ NoHistory
    \/ \E q \in Requests : PublishResolve(q) /\ NoHistory
    \/ \E q \in Requests : PublishCreate(q) /\ NoHistory
    \/ \E q \in Requests : PublishVersion(q) /\ NoHistory

Next ==
    \/ PublishMalformed /\ NoHistory
    \/ PublishStore /\ NoHistory
    \/ \E q \in Requests : PublishResolve(q) /\ NoHistory
    \/ \E q \in Requests : PublishCreate(q) /\ NoHistory
    \/ \E q \in Requests : PublishVersion(q) /\ NoHistory
    \/ DownloadBegin /\ NoHistory
    \/ \E q \in Requests : DownloadLookup(q) /\ NoHistory
    \/ \E q \in Requests : DownloadIncrement(q) /\ NoHistory
    \/ \E q \in Requests : DownloadOpen(q) /\ NoHistory
    \/ \E query \in Queries : Search(query, <<>>, <<>>) /\ NoHistory

Spec == Init /\ [][Next]_vars

\* The publish pipeline alone: no download touches the blob store, the
\* version rows or a crate's name and owner.
SpecPublish == Init /\ [][PublishNext]_vars

\* A registry in service: one package, registered by its owner with one or
\* both versions published, each blob stored under the configured backend.
InitRegistered ==
    /\ backend \in StorageBackends
    /\ \E n \in Names, u \in Users, vs \in (SUBSET Versions) \ {{}} :
       \E d \in [vs -> Archives] :
          /\ crates = {[id |-> 1, name |-> n, description |-> <<>>, owner_id |-> u,
                         downloads |-> 0]}
          /\ crate_versions =
                {[crate_id |-> 1, version |-> v,
                  checksum |-> Sha256(d[v]), file_size |-> Len(d[v])] : v \in vs}
          /\ files =
                IF backend = "Local"
                THEN [k \in {get_local_crate_path(n, v) : v \in vs} |->
                        d[CHOOSE v \in vs : get_local_crate_path(n, v) = k]]
                ELSE <<>>
          /\ objects =
                IF backend = "S3"
                THEN [k \in {s3_key(n, v) : v \in vs} |->
                        d[CHOOSE v \in vs : s3_key(n, v) = k]]
                ELSE <<>>
          /\ accepted = {[name |-> n, vers |-> v, data |-> d[v], user |-> u] : v \in vs}
          /\ admitted = {[name |-> n, user |-> u]}
    /\ inflight = {}
    /\ out = NoResponse
    /\ last_failed = NoPublish
    /\ served = 0
    /\ NoAccounts

DownloadNext ==
    \/ DownloadBegin /\ NoHistory
    \/ \E q \in Requests : DownloadLookup(q) /\ NoHistory
    \/ \E q \in Requests : DownloadIncrement(q) /\ NoHistory
    \/ \E q \in Requests : DownloadOpen(q) /\ NoHistory

\* Downloads, concurrent, of a registered package.
SpecDownload == InitRegistered /\ [][DownloadNext]_vars

\* The client counts the downloads answered 200.
CountServed ==
    /\ served' = IF out'.resp = "OK" THEN served + 1 ELSE served
    /\ UNCHANGED last_failed
    /\ AccountsUnchanged

\* The same downloads with every backend call succeeding: the lookup finds
\* the row, the UPDATE is executed, the file opens.
CountedNext ==
    \/ DownloadBegin /\ CountServed
    \/ \E q \in Requests :
          /\ DownloadLookup(q)
          /\ \A p \in inflight' \ inflight : p[1].pc = "incr"
          /\ CountServed
    \/ \E q \in Requests :
          /\ DownloadIncrement(q)
          /\ crates' = increment_download_count(q.crate_id)
          /\ CountServed
    \/ \E q \in Requests :
          /\ DownloadOpen(q)
          /\ out'.resp = "OK"
          /\ CountServed

SpecCounted == InitRegistered /\ [][CountedNext]_vars

\* The client remembers the publish a failed backend call answered.
RememberFailure ==
    /\ last_failed' =
          IF out'.resp # "none" /\ out'.kind = "publish" /\ out'.fault
          THEN PublishOf(out'.user, out'.name, out'.vers, out'.data)
          ELSE last_failed
    /\ UNCHANGED served
    /\ AccountsUnchanged

\* One publish at a time, each sent when the one before it was answered:
\* a client that publishes, sees its publish fail and sends it again.
RetryNext ==
    \/ inflight = {} /\ PublishStore /\ RememberFailure
    \/ \E q \in Requests : PublishResolve(q) /\ RememberFailure
    \/ \E q \in Requests : PublishCreate(q) /\ RememberFailure
    \/ \E q \in Requests : PublishVersion(q) /\ RememberFailure

SpecRetry == Init /\ [][RetryNext]_vars

\* A catalog in service under the local backend: some of the packages of
\* SearchNames, each with its description, its version 1.0.0 published and
\* the downloads it has had.
InitCatalog ==
    /\ backend = "Local"
    /\ \E ns \in SUBSET SearchNames :
       \E ds \in [ns -> Descriptions], dl \in [ns -> 0..1] :
          /\ crates =
                {[id |-> Cardinality({m \in SearchNames : bytes_lt(m, n)}) + 1, name |-> n,
                  description |-> ds[n], owner_id |-> "userA",
                  downloads |-> dl[n]] : n \in ns}
          /\ crate_versions =
                {[crate_id |-> Cardinality({m \in SearchNames : bytes_lt(m, n)}) + 1,
                  version |-> "1.0.0",
                  checksum |-> Sha256(<<1>>), file_size |-> 1] : n \in ns}
          /\ files = [k \in {get_local_crate_path(n, "1.0.0") : n \in ns} |-> <<1>>]
          /\ accepted =
                {[name |-> n, vers |-> "1.0.0", data |-> <<1>>, user |-> "userA"]
                   : n \in ns}
          /\ admitted = {[name |-> n, user |-> "userA"] : n \in ns}
    /\ objects = <<>>
    /\ inflight = {}
    /\ out = NoResponse
    /\ last_failed = NoPublish
    /\ served = 0
    /\ NoAccounts

SearchNext ==
    \E query \in SearchQueries, per_page \in PerPages, page \in Pages :
       Search(query, per_page, page) /\ NoHistory

\* The searches of a catalog in service.
SpecSearch == InitCatalog /\ [][SearchNext]_vars

(* ------------------------- views of the state ------------------------- *)

\* The Version rows a catalog reader sees for (name, version): the rows of
\* crate_versions joined to crates on crate_id.
VersionRows(name, version) ==
    {row \in crate_versions :
        /\ row.version = version
        /\ \E c \in crates : c.id = row.crate_id /\ c.name = name}

\* The accepted publishes of (name, version).
AcceptedFor(name, version) ==
    {a \in accepted : a.name = name /\ a.vers = version}

\* out is the answer to a publish that got as far as its blob write.
PublishAnswered == out.resp # "none" /\ out.kind = "publish" /\ out.name # ""

DownloadAnswered == out.resp # "none" /\ out.kind = "download"

(* ------------------------------- claims ------------------------------- *)

\* C1 (as claimed): in every reachable state every Version row has a blob
\* at the key of its (name, version), and the digest of the bytes stored
\* there equals the row's checksum.
C1_ChecksumMatchesBlob ==
    \A c \in crates : \A row \in crate_versions :
        row.crate_id = c.id =>
            /\ crate_exists(c.name, row.version)
            /\ Sha256(get_crate_data(c.name, row.version)) = row.checksum

\* C2 (as claimed): a publish of a never published (name, version) that
\* succeeds has recorded checksum = digest(bytes) and file_size =
\* length(bytes), and a download of (name, version) that is answered after
\* it, no backend call of the download failing, returns exactly bytes.
C2_PublishThenDownload ==
    /\ (PublishAnswered /\ out.resp = "OK") =>
          \E row \in VersionRows(out.name, out.vers) :
             row.checksum = Sha256(out.data) /\ row.file_size = Len(out.data)
    /\ \A a \in accepted :
          (DownloadAnswered /\ out.name = a.name /\ out.vers = a.vers /\ ~out.fault)
             => (out.resp = "OK" /\ out.body = a.data)

\* C3 (as claimed): when the owner's publish reaches the version insert for
\* a (name, version) that already has a Version row, the database itself
\* working, it is answered Conflict and the catalog still holds exactly one
\* Version row for that (name, version).
C3_RepublishIsConflict ==
    [][\A q \in Requests :
          (/\ PublishVersion(q) /\ ~out'.fault
           /\ ~crate_versions_unique(q.crate_id, q.vers))
             => /\ out'.resp = "CONFLICT"
                /\ Cardinality(VersionRows(q.name, q.vers)') = 1]_vars

\* C4 (as claimed): when the owner publishes an already published
\* (name, version) again with different bytes, the publish is not answered
\* success, its blob write leaves the bytes of the first publish in place
\* at that key, and the Version row records their checksum as before.
C4_RejectedRepublishKeepsBlob ==
    [][\A a \in accepted :
          /\ \A d \in Archives \ {a.data} :
                (/\ PublishStore
                 /\ inflight' =
                       AddTo(inflight, PublishRequest(a.user, a.name, a.vers, d))
                 /\ get_crate_data(a.name, a.vers) = a.data)
                   => get_crate_data(a.name, a.vers)' = a.data
          /\ \A q \in Requests :
                (/\ PublishVersion(q)
                 /\ q.name = a.name /\ q.vers = a.vers /\ q.data # a.data)
                   => /\ out'.resp # "OK"
                      /\ \A row \in VersionRows(a.name, a.vers)' :
                            row.checksum = Sha256(a.data)]_vars

\* Some crate called name is owned by a principal other than user.
OwnedByAnother(name, user) ==
    \E c \in crates : c.name = name /\ c.owner_id # user

\* C5 (as claimed): a publish of an already published (name, version) by a
\* principal who is not the owner is answered Forbidden, the database
\* itself working, and its blob write leaves the bytes of the owner's
\* publish in place, which are what a later download is to return.
C5_ForbiddenKeepsOriginal ==
    [][/\ \A q \in Requests :
            (PublishResolve(q) /\ OwnedByAnother(q.name, q.user) /\ ~out'.fault)
               => out'.resp = "FORBIDDEN"
       /\ \A a \in accepted : \A u \in Users \ {a.user} : \A d \in Archives :
            (/\ PublishStore
             /\ inflight' = AddTo(inflight, PublishRequest(u, a.name, a.vers, d))
             /\ get_crate_data(a.name, a.vers) = a.data)
               => get_crate_data(a.name, a.vers)' = a.data]_vars

\* A server error that reports a failed backend call.
BackendFailure == out'.resp = "INTERNAL_SERVER_ERROR" /\ out'.fault

CatalogUnchanged == crates' = crates /\ crate_versions' = crate_versions

\* C6 (as claimed): a publish under a name whose Package row belongs to
\* another principal is always answered Forbidden, whatever its version
\* and archive, and no step of it creates a Version row or changes a
\* Package row.
C6_NonOwnerAlwaysForbidden ==
    [][/\ (PublishStore /\ out'.resp # "none"
               /\ OwnedByAnother(out'.name, out'.user))
            => (out'.resp = "FORBIDDEN" /\ CatalogUnchanged)
       /\ \A q \in Requests :
            (PublishResolve(q) /\ OwnedByAnother(q.name, q.user))
               => /\ out' = Response(q, "FORBIDDEN", <<>>, FALSE)
                  /\ CatalogUnchanged]_vars

\* C6 (amended): a publish under a name whose Package row belongs to
\* another principal never gets past the ownership check: it is answered
\* Forbidden, or a server error when its blob write or its catalog lookup
\* fails, and no step of it creates a Version row or changes a Package row.
C6_NonOwnerNeverPublishes ==
    [][/\ (PublishStore /\ out'.resp # "none"
               /\ OwnedByAnother(out'.name, out'.user))
            => (BackendFailure /\ CatalogUnchanged)
       /\ \A q \in Requests :
            (PublishResolve(q) /\ OwnedByAnother(q.name, q.user))
               => /\ \/ out' = Response(q, "FORBIDDEN", <<>>, FALSE)
                     \/ out' = Response(q, "INTERNAL_SERVER_ERROR", <<>>, TRUE)
                  /\ CatalogUnchanged]_vars

\* A non-owner's publish under an owned name has been answered Forbidden.
C6_Witness ==
    /\ PublishAnswered /\ out.resp = "FORBIDDEN"
    /\ OwnedByAnother(out.name, out.user)

\* C7: whatever the interleaving of publishes for a name, the crates table
\* admits at most one insert for it: there is never more than one Package
\* row of that name, and once an insert was admitted there is exactly one,
\* owned by the principal whose insert it was.
C7_OnePackageRowPerName ==
    \A n \in Names :
        /\ Cardinality(get_crate_by_name(n)) <= 1
        /\ Cardinality({a \in admitted : a.name = n}) <= 1
        /\ \A a \in admitted :
              a.name = n => \E c \in get_crate_by_name(n) : c.owner_id = a.user
        /\ get_crate_by_name(n) # {} => \E a \in admitted : a.name = n

\* Two principals raced for an unused name: both found no row, one insert
\* was admitted and the other publish is about to attempt its own.
C7_Witness ==
    \E a \in admitted : \E q \in Requests :
        q.kind = "publish" /\ q.pc = "create" /\ q.name = a.name /\ q.user # a.user

\* C8 (as claimed): the publish that loses the Package-row insert, the
\* database itself working, is answered Forbidden or Conflict.
C8_LoserSeesConflict ==
    [][\A q \in Requests :
          (PublishCreate(q) /\ ~crates_name_unique(q.name) /\ ~out'.fault)
             => out'.resp \in {"FORBIDDEN", "CONFLICT"}]_vars

\* C9: whatever the interleaving of publishes of one (name, version), at
\* most one of them is answered success, at most one Version row exists
\* for it, and once one was answered success exactly one row exists and it
\* records the digest and length of the bytes that caller uploaded.
C9_OneVersionRowOfTheWinner ==
    \A n \in Names : \A v \in Versions :
        /\ Cardinality(AcceptedFor(n, v)) <= 1
        /\ Cardinality(VersionRows(n, v)) <= 1
        /\ \A a \in AcceptedFor(n, v) :
              \E row \in VersionRows(n, v) :
                 row.checksum = Sha256(a.data) /\ row.file_size = Len(a.data)
        /\ VersionRows(n, v) # {} => AcceptedFor(n, v) # {}

\* Two publishes of one (name, version) with different bytes overlapped:
\* one was answered success, its blob write having landed last, while the
\* other, which wrote its blob earlier, is still to insert its row.
C9_Witness ==
    \E a \in accepted : \E q \in Requests :
        /\ q.kind = "publish" /\ q.pc = "version"
        /\ q.name = a.name /\ q.vers = a.vers /\ q.data # a.data
        /\ get_crate_data(a.name, a.vers) = a.data

\* C10: no Version row is visible while no blob is stored at the key of its
\* (name, version): the blob write of a publish comes before its insert.
C10_VersionImpliesBlob ==
    \A c \in crates : \A row \in crate_versions :
        row.crate_id = c.id => crate_exists(c.name, row.version)

\* A publish has inserted its Version row, its blob being stored.
C10_Witness ==
    \E a \in accepted :
        VersionRows(a.name, a.vers) # {} /\ crate_exists(a.name, a.vers)

\* The step takes up publish request p (a copy in flight), store_crate done.
TakenUp(p) == p \in inflight' \ inflight /\ p[1].kind = "publish" /\ p[1].pc = "resolve"

\* The step answers a parsed publish that was never taken up: store_crate
\* is the only call it made.
AnsweredAtStore ==
    /\ inflight' = inflight
    /\ out'.resp # "none" /\ out'.kind = "publish" /\ out'.name # ""

\* C11: a publish proceeds past store_crate only when the write happened,
\* and a publish whose blob write fails is answered there and then with a
\* server error, leaving every Package row and every Version row as it was.
C11_StoreFailureAborts ==
    [][/\ \A p \in inflight' :
            TakenUp(p) =>
               /\ crate_exists(p[1].name, p[1].vers)'
               /\ get_crate_data(p[1].name, p[1].vers)' = p[1].data
       /\ AnsweredAtStore => (BackendFailure /\ CatalogUnchanged)]_vars

\* A publish was answered a server error by its failed blob write (nothing
\* is stored at its key) while the catalog holds rows.
C11_Witness ==
    /\ PublishAnswered /\ out.resp = "INTERNAL_SERVER_ERROR" /\ out.fault
    /\ ~crate_exists(out.name, out.vers)
    /\ crates # {} /\ crate_versions # {}

\* C12 (as claimed): once a publish has been answered and no other request
\* is in flight, every Package row has a Version row: no outcome of a
\* publish, a failed version insert included, leaves a Package row alone.
C12_PackageAndVersionTogether ==
    (PublishAnswered /\ inflight = {}) =>
        \A c \in crates : \E row \in crate_versions : row.crate_id = c.id

\* Request q repeats the publish that last failed on a backend call.
Retried(q) ==
    q.kind = "publish" /\ PublishOf(q.user, q.name, q.vers, q.data) = last_failed

\* Nothing but the failure stood in the way of q: its name is unused or its
\* principal's own, and its (name, version) has no Version row.
Unclaimed(q) ==
    /\ \A c \in get_crate_by_name(q.name) : c.owner_id = q.user
    /\ VersionRows(q.name, q.vers) = {}

\* The call q awaits succeeds if its backend does not fail.
CanProceed(q) ==
    /\ q.pc = "resolve" =>
          \A c \in get_crate_by_name(q.name) : ~owner_mismatch(c, q.user)
    /\ q.pc = "create" => crates_name_unique(q.name)
    /\ q.pc = "version" => crate_versions_unique(q.crate_id, q.vers)

\* C13: when a client sends again, with the same principal, name, version
\* and bytes, a publish that only a failed blob-store or catalog call had
\* stopped, no call of the retry is refused: each one succeeds unless its
\* backend fails again, the retry is answered success, and the Version row
\* then records the digest of the bytes stored at the key.
C13_RetrySucceeds ==
    [][\A q \in Requests :
          (Retried(q) /\ Unclaimed(q)) =>
             /\ CanProceed(q)
             /\ ~BackendFailure =>
                   /\ out'.resp \in {"none", "OK"}
                   /\ out'.resp = "OK" =>
                         \E row \in VersionRows(q.name, q.vers)' :
                            /\ row.checksum = Sha256(q.data)
                            /\ row.checksum =
                                  Sha256(get_crate_data(q.name, q.vers)')]_vars

\* The retry of a publish that a backend call had failed has been
\* answered success, its bytes being the ones stored at its key.
C13_Witness ==
    /\ PublishAnswered /\ out.resp = "OK"
    /\ PublishOf(out.user, out.name, out.vers, out.data) = last_failed
    /\ get_crate_data(out.name, out.vers) = out.data

\* C14: a download of a (name, version) with no blob stored is never taken
\* further than the existence check: it is answered NotFound, and the
\* downloads counter of every package, the package of that name included,
\* is what it was.
C14_MissingBlobNotFound ==
    [][/\ \A p \in inflight' \ inflight :
            (p[1].kind = "download" /\ p[1].pc = "lookup")
               => crate_exists(p[1].name, p[1].vers)
       /\ (/\ out'.resp # "none" /\ out'.kind = "download"
           /\ ~crate_exists(out'.name, out'.vers))
            => /\ out' = Response(DownloadRequest(out'.name, out'.vers),
                                  "NOT_FOUND", <<>>, FALSE)
               /\ crates' = crates
               /\ inflight' = inflight]_vars

\* A download of a version with no blob was answered NotFound while the
\* package of that name exists, another version of it downloaded before.
C14_Witness ==
    /\ DownloadAnswered /\ out.resp = "NOT_FOUND"
    /\ ~crate_exists(out.name, out.vers)
    /\ backend = "Local"
    /\ \E c \in crates : c.name = out.name /\ c.downloads > 0

\* The downloads past their increment and not yet answered.
Counted == {p \in inflight : p[1].kind = "download" /\ p[1].pc = "open"}

C16_BookkeepingNeverFailsDownload ==
    [][\A q \in Requests :
          /\ (DownloadLookup(q) \/ DownloadIncrement(q)) =>
                /\ out' = NoResponse
                /\ \E p \in inflight' \ inflight :
                      /\ p[1].kind = "download"
                      /\ p[1].name = q.name /\ p[1].vers = q.vers
                /\ file_path_exists(q.name, q.vers)'
          /\ (DownloadOpen(q) /\ ~BackendFailure) =>
                out' = Response(q, "OK", get_crate_data(q.name, q.vers), FALSE)]_vars

\* A download of a registered package was answered success with the bytes
\* of the blob although the package's counter is still 0: its lookup or
\* its increment had failed.
C16_Witness ==
    /\ DownloadAnswered /\ out.resp = "OK"
    /\ out.body = get_crate_data(out.name, out.vers)
    /\ inflight = {}
    /\ \E c \in crates : c.name = out.name /\ c.downloads = 0

\* C17: in every reachable state no two Package rows have the same name,
\* and every step of a publish, a download or a search leaves each
\* existing Package row in place with the name and the owner_id it had.
C17_NameAndOwnerImmutable ==
    /\ [](\A n \in Names : Cardinality(get_crate_by_name(n)) <= 1)
    /\ [][\A c \in crates : \E c2 \in crates' :
              c2.id = c.id /\ c2.name = c.name /\ c2.owner_id = c.owner_id]_vars

\* A Package row that has been downloaded from, a publish under its name
\* by another principal answered Forbidden.
C17_Witness ==
    /\ PublishAnswered /\ out.resp = "FORBIDDEN"
    /\ \E c \in crates :
          c.name = out.name /\ c.owner_id # out.user /\ c.downloads > 0

\* C18: every step of a publish, a download or a search leaves every
\* Version row in place, with the version string, the checksum and the
\* file_size it was inserted with: the set of Version rows only grows.
C18_VersionRowsOnlyGrow ==
    [][crate_versions \subseteq crate_versions']_vars

\* A publish of an already published (name, version) with other bytes was
\* turned away by the table, and the row records the first checksum.
C18_Witness ==
    /\ PublishAnswered /\ out.resp = "INTERNAL_SERVER_ERROR" /\ ~out.fault
    /\ \E row \in VersionRows(out.name, out.vers) :
          row.checksum # Sha256(out.data)

\* The crate part or the metadata part of body b is missing or unparseable.
Defective(b) ==
    \/ \A i \in DOMAIN b : b[i].field # "crate"
    \/ \A i \in DOMAIN b : b[i].field # "metadata"
    \/ \E i \in DOMAIN b : b[i].field \in {"crate", "metadata"} /\ ~field_ok(b[i])

\* The step answers a publish whose body did not parse.
AnsweredAtParse == out'.resp # "none" /\ out'.kind = "publish" /\ out'.name = ""

\* C19: a publish body whose crate part or metadata part is missing or
\* unparseable does not parse; the publish is answered 400 with the blob
\* store and the catalog as they were, and a publish is only taken as far
\* as the blob store with the name, version and bytes of a body that has
\* both parts, both parseable.
C19_MalformedIsBadRequest ==
    /\ [](\A b \in Bodies : Defective(b) => b \in MalformedBodies)
    /\ [][/\ AnsweredAtParse =>
                /\ out'.resp = "BAD_REQUEST"
                /\ UNCHANGED <<files, objects, crates, crate_versions, inflight>>
           /\ \A p \in inflight' :
                TakenUp(p) =>
                   \E b \in Bodies :
                      /\ ~Defective(b)
                      /\ parse(b) = [ok |-> TRUE, data |-> p[1].data,
                                     name |-> p[1].name, vers |-> p[1].vers]]_vars

\* A malformed publish was answered 400 while blobs and rows exist.
C19_Witness ==
    /\ out.resp = "BAD_REQUEST" /\ out.kind = "publish"
    /\ crates # {} /\ crate_versions # {}
    /\ \E n \in Names, v \in Versions : crate_exists(n, v)

\* The step stores a blob at the key of (name, version).
StoresAt(name, version) ==
    \E p \in inflight' : TakenUp(p) /\ p[1].name = name /\ p[1].vers = version

C21_PublishedIsDownloadable ==
    \A a \in accepted :
        ~ /\ DownloadAnswered
          /\ out.name = a.name /\ out.vers = a.vers
          /\ out.resp = "NOT_FOUND"

(* ------------------- what a download takes as given ------------------- *)

\* C23 (as claimed): a download is answered 200 with bytes only if the
\* catalog holds a Version row for that (name, version); with no publish
\* still under way, the bytes a rejected publish left are never served.
C23_CatalogDecidesExistence ==
    ( /\ DownloadAnswered
      /\ out.resp = "OK"
      /\ \A q \in Requests : q.kind # "publish" )
    => VersionRows(out.name, out.vers) # {}

(* ----------------- the counter and the failed download ---------------- *)

\* The downloads of SpecDownload, any call of which may fail, with the
\* client counting the downloads answered 200; it stops asking after
\* MaxDownloads of them.
ServedNext ==
    \/ served < MaxDownloads /\ DownloadBegin /\ CountServed
    \/ \E q \in Requests : DownloadLookup(q) /\ CountServed
    \/ \E q \in Requests : DownloadIncrement(q) /\ CountServed
    \/ \E q \in Requests : DownloadOpen(q) /\ CountServed

SpecServed == InitRegistered /\ [][ServedNext]_vars

\* C24 (as claimed): the counter of a package is raised only by downloads
\* that end in success: each unit of it belongs to a download answered 200
\* or to one that has passed the increment and is not answered yet.
C24_OnlySuccessCounts ==
    \A c \in crates : c.downloads <= served + Cardinality(Counted)

(* ------------------------------- search ------------------------------- *)

\* out is the answer 200 of a search.
SearchAnswered == out.resp = "OK" /\ out.kind = "search"

\* The query occurs in the text: at some position each of its characters
\* is the character of the text, whatever the case, or is the one-character
\* wildcard _.
Occurs(query, text) ==
    \E i \in 1..(Len(text) - Len(query) + 1) :
        \A j \in 1..Len(query) :
            \/ SubSeq(query, j, j) = "_"
            \/ to_lower(SubSeq(query, j, j)) = to_lower(SubSeq(text, i + j - 1, i + j - 1))

\* The package row matches the query on its name or on its description.
Matches(query, row) ==
    \/ Occurs(query, row.name)
    \/ row.description # <<>> /\ Occurs(query, row.description[1])

C28_OffsetNeverNegative ==
    (out.resp # "none" /\ out.kind = "search") =>
        LET per_page == out.data[1]
            page     == out.data[2]
            limit    == Min(IF per_page = <<>> THEN 10 ELSE per_page[1], 100)
        IN  /\ per_page_of(per_page) = limit
            /\ offset_of(page, per_page) = ((IF page = <<>> THEN 1 ELSE page[1]) - 1) * limit
            /\ offset_of(page, per_page) >= 0

(* --------------------------- authentication --------------------------- *)

\* The last instant of the clock.
MaxTime == 2

\* The rows table sessions may hold.
MaxSessions == 2

\* AuthConfig.session_duration_hours, in units of the clock.
session_duration == 1

\* create_jwt_token: the claims sub, exp and iat signed with the one secret;
\* the user and the instant determine the token.
create_jwt_token(user, instant) == user \o "." \o ToString(instant)

\* header.strip_prefix("Bearer "), an Option.
strip_prefix(header, prefix) ==
    IF Len(header) >= Len(prefix) /\ SubSeq(header, 1, Len(prefix)) = prefix
    THEN <<SubSeq(header, Len(prefix) + 1, Len(header))>>
    ELSE <<>>

\* A lookup that does not look at expires_at.
get_session_by_token_ignoring_expiry(token) == {s \in sessions : s.token = token}

\* SELECT ... FROM sessions WHERE token = ?1 AND expires_at > ?2 (now)
get_session_by_token(token) ==
    {s \in sessions : s.token = token /\ s.expires_at > now}

\* SELECT ... FROM users WHERE id = ?1
get_user_by_id(user_id) == {u \in Users : u = user_id}

\* auth_middleware with every database call answered: the user inserted
\* into the request extensions, or none (401). An absent header is <<>>.
auth_middleware(header) ==
    LET token == IF header = <<>> THEN <<>> ELSE strip_prefix(header[1], "Bearer ")
        found == IF token = <<>> THEN {} ELSE get_session_by_token(token[1])
    IN  {u \in Users : \E s \in found : u \in get_user_by_id(s.user_id)}

\* The Authorization headers a client sends: none, each issued token as a
\* Bearer and under another scheme, a Bearer with no token, a forged token.
Headers ==
    {<<>>, <<"Bearer ">>, <<"Bearer userA.forged">>}
        \cup {<<"Bearer " \o s.token>> : s \in sessions}
        \cup {<<"Basic " \o s.token>> : s \in sessions}

\* A request to a protected route before any handler has it.
Unauthenticated(kind) ==
    [kind |-> kind, pc |-> "auth", user |-> "", name |-> "", vers |-> "",
     data |-> <<>>, crate_id |-> 0]

RegistryUnchanged ==
    /\ UNCHANGED <<backend, files, objects, crates, crate_versions, inflight,
                   accepted, admitted, last_failed, served>>
    /\ OrganizationsUnchanged

\* login_handler: authenticate_user creates the token and stores the
\* session; a wrong password, or an Err of the INSERT (the token is UNIQUE),
\* is answered 401.
Login ==
    /\ \E u \in Users, password_ok \in BOOLEAN :
          LET token == create_jwt_token(u, now)
          IN  \/ /\ password_ok
                 /\ Cardinality(sessions) < MaxSessions
                 /\ \A s \in sessions : s.token # token
                 /\ sessions' = sessions \cup
                       {[token |-> token, user_id |-> u,
                         expires_at |-> now + session_duration]}
                 /\ out' = Response([Unauthenticated("login") EXCEPT !.user = u],
                                    "OK", token, FALSE)
              \/ /\ UNCHANGED sessions
                 /\ out' = Response([Unauthenticated("login") EXCEPT !.user = u],
                                    "UNAUTHORIZED", <<>>, password_ok)
    /\ presented' = <<>>
    /\ UNCHANGED <<now, logged_out>>
    /\ RegistryUnchanged

\* Time passes.
Tick ==
    /\ now < MaxTime
    /\ now' = now + 1
    /\ out' = NoResponse
    /\ presented' = <<>>
    /\ UNCHANGED <<sessions, logged_out>>
    /\ RegistryUnchanged

\* The middleware answers 401: no Bearer token, no unexpired session for
\* it, no user for the session, or an Err of one of its two SELECTs.
Unauthorized(kind, header) ==
    /\ out' = Response(Unauthenticated(kind), "UNAUTHORIZED", <<>>,
                       auth_middleware(header) # {})
    /\ UNCHANGED <<sessions, now, logged_out>>
    /\ RegistryUnchanged

\* POST /api/auth/logout behind the middleware: logout_handler returns 200
\* and calls nothing.
Logout ==
    /\ \E header \in Headers :
          /\ presented' = <<header>>
          /\ \/ Unauthorized("logout", header)
             \/ \E u \in auth_middleware(header) :
                   /\ out' = Response([Unauthenticated("logout") EXCEPT !.user = u],
                                      "OK", <<>>, FALSE)
                   /\ logged_out' = logged_out \cup {strip_prefix(header[1], "Bearer ")[1]}
                   /\ UNCHANGED <<sessions, now>>
                   /\ RegistryUnchanged

\* The step starts the publish pipeline of a request of principal u; the
\* clients of this route all publish version 1.0.0 with the same archive.
PrincipalIs(u) ==
    /\ \A p \in inflight' \ inflight :
          p[1].user = u /\ p[1].vers = "1.0.0" /\ p[1].data = <<1>>
    /\ out'.resp # "none" =>
          out'.user = u /\ (out'.name # "" => out'.vers = "1.0.0" /\ out'.data = <<1>>)

\* POST /api/v1/crates/new behind the middleware: publish_handler runs
\* with the user the middleware inserted.
ProtectedPublish ==
    /\ \E header \in Headers :
          /\ presented' = <<header>>
          /\ \/ Unauthorized("publish", header)
             \/ \E u \in auth_middleware(header) :
                   /\ PublishMalformed \/ PublishStore
                   /\ PrincipalIs(u)
                   /\ UNCHANGED <<sessions, now, logged_out, last_failed, served>>
                   /\ OrganizationsUnchanged

\* The steps of a publish past the middleware.
Behind(step) ==
    /\ step
    /\ presented' = <<>>
    /\ UNCHANGED <<sessions, now, logged_out, last_failed, served>>
    /\ OrganizationsUnchanged

\* Logins, logouts and publishes, one publish at a time, as time passes.
AuthNext ==
    \/ Login
    \/ Tick
    \/ Logout
    \/ inflight = {} /\ ProtectedPublish
    \/ \E q \in Requests : Behind(PublishResolve(q))
    \/ \E q \in Requests : Behind(PublishCreate(q))
    \/ \E q \in Requests : Behind(PublishVersion(q))

SpecAuth == Init /\ [][AuthNext]_vars

\* The header is a Bearer of the token of a stored session that has not
\* expired and whose user, u, exists.
ValidSession(header, u) ==
    \E x \in sessions :
        /\ header = <<"Bearer " \o x.token>>
        /\ x.expires_at > now
        /\ x.user_id = u /\ u \in Users

\* The step runs publish_handler for a request: it takes the request up
\* after its blob write, or answers it 400 or 500 before.
PipelineStarted ==
    \/ \E p \in inflight' \ inflight : TakenUp(p)
    \/ /\ presented' # <<>>
       /\ out'.kind = "publish" /\ out'.resp # "UNAUTHORIZED"

\* C25: publish_handler runs only for a request whose Authorization header
\* is a Bearer of the token of a stored, unexpired session of an existing
\* user, and runs with that user as its principal; a request to the publish
\* route with any other header is answered 401, and a request answered 401
\* leaves the blob store and the catalog as they were.
C25_PublishNeedsSession ==
    [][ /\ PipelineStarted =>
              \E u \in Users :
                 /\ ValidSession(presented'[1], u)
                 /\ \A p \in inflight' \ inflight : p[1].user = u
                 /\ out'.resp # "none" => out'.user = u
        /\ ( /\ presented' # <<>>
             /\ \A u \in Users : ~ValidSession(presented'[1], u) )
           => out'.resp = "UNAUTHORIZED"
        /\ out'.resp = "UNAUTHORIZED" =>
              UNCHANGED <<files, objects, crates, crate_versions, inflight>>
      ]_vars

\* A publish has been taken up with the token of a session of its
\* principal, under a name another user owns, while an expired session is
\* still stored.
C25_Witness ==
    /\ \E x \in sessions :
          /\ presented = << <<"Bearer " \o x.token>> >>
          /\ \E p \in inflight :
                /\ p[1].kind = "publish" /\ p[1].user = x.user_id
                /\ \E c \in crates : c.name = p[1].name /\ c.owner_id # x.user_id
    /\ \E x \in sessions : x.expires_at <= now

\* C26 (as claimed): once a logout with a token has been answered 200, every
\* request that carries the token to a protected route is answered 401.
C26_LogoutInvalidates ==
    [][ ( /\ presented' # <<>>
          /\ \E t \in logged_out : presented'[1] = <<"Bearer " \o t>> )
        => out'.resp = "UNAUTHORIZED" ]_vars

(* ------------------------------ blob keys ----------------------------- *)

\* metadata.name and metadata.vers are any strings: publish_handler checks
\* neither. Names and versions with the separators of the key in them.
KeyNames == {"a", "a/a-x"}

KeyVersions == {"1", "x/a/a-x-1"}

\* A publish whose metadata carries a name of KeyNames and a version of
\* KeyVersions, as far as its blob write.
PublishStoreKeyed ==
    /\ CanArrive
    /\ \E n \in KeyNames, v \in KeyVersions, d \in Archives :
          PublishStoreOf("userA", n, v, d)
    /\ UNCHANGED <<backend, crates, crate_versions, accepted, admitted>>

\* The publishes of one user, one at a time, under such names and versions.
KeysNext ==
    \/ inflight = {} /\ PublishStoreKeyed /\ NoHistory
    \/ \E q \in Requests : PublishResolve(q) /\ NoHistory
    \/ \E q \in Requests : PublishCreate(q) /\ NoHistory
    \/ \E q \in Requests : PublishVersion(q) /\ NoHistory

SpecKeys == Init /\ [][KeysNext]_vars

\* C27 (as claimed): two different (name, version) pairs never resolve to
\* the same stored location: the blob write of a publish of one pair leaves
\* the bytes of every other pair, once its publish was answered 200, as
\* they were, whatever '-', '/' or '..' the names and versions contain.
C27_KeyInjective ==
    [][ \A p \in inflight' \ inflight :
           TakenUp(p) =>
              \A n \in KeyNames, v \in KeyVersions :
                 ( <<n, v>> # <<p[1].name, p[1].vers>> /\ AcceptedFor(n, v) # {} )
                 => get_crate_data(n, v)' = get_crate_data(n, v)
      ]_vars

(* ---------------------------- organizations --------------------------- *)

\* CreateOrganizationRequest.name
OrgNames == {"orgX", "orgY"}

\* enum OrganizationRole
Roles == {"Owner", "Admin", "Member", "Viewer"}

\* The rows table organization_invites may hold.
MaxInvites == 1

\* users.email
email_of(user) == user \o "@example.org"

\* match role { Owner => "owner", Admin => "admin", Member => "member",
\*              Viewer => "viewer" }
role_to_str(role) ==
    CASE role = "Owner" -> "owner"
      [] role = "Admin" -> "admin"
      [] role = "Member" -> "member"
      [] role = "Viewer" -> "viewer"

\* match row.get("role") { "owner" => Owner, "admin" => Admin, _ => Member }
role_from_str(text) ==
    IF text = "owner" THEN "Owner" ELSE IF text = "admin" THEN "Admin" ELSE "Member"

can_invite(role) == role \in {"Owner", "Admin"}

can_manage_members(role) == role \in {"Owner", "Admin"}

\* SELECT COUNT(*) FROM organizations WHERE name = ?1
organization_exists(name) == \E o \in organizations : o.name = name

get_organization_by_name(name) == {o \in organizations : o.name = name}

\* SELECT role FROM organization_members WHERE user_id = ?1 AND
\* organization_id = ?2 AND is_active = true
get_user_organization_role(user_id, org_id) ==
    {role_from_str(m.role) :
        m \in {x \in organization_members :
                 x.user_id = user_id /\ x.organization_id = org_id /\ x.is_active}}

\* SELECT COUNT(*) FROM organization_members om JOIN users u ... WHERE
\* u.email = ?1 AND om.organization_id = ?2 AND om.is_active = true
is_user_organization_member(email, org_id) ==
    \E m \in organization_members :
        email_of(m.user_id) = email /\ m.organization_id = org_id /\ m.is_active

\* SELECT ... FROM organization_invites WHERE token = ?1 AND expires_at > now
\* (no invite expires while the clock stands)
get_organization_invite_by_token(token) ==
    {i \in organization_invites : i.token = token}

\* SELECT ... FROM organization_members WHERE id = ?1
get_organization_member(member_id) ==
    {m \in organization_members : m.id = member_id}

\* SELECT ... WHERE user_id = ?1 AND organization_id = ?2 AND is_active = true
get_user_organization_membership(user_id, org_id) ==
    {m \in organization_members :
        m.user_id = user_id /\ m.organization_id = org_id /\ m.is_active}

\* UPDATE organization_members SET is_active = false WHERE id = ?1
remove_organization_member(member_id) ==
    {IF m.id = member_id THEN [m EXCEPT !.is_active = FALSE] ELSE m
       : m \in organization_members}

\* UNIQUE(organization_id, user_id) of organization_members admits the row.
organization_members_unique(org_id, user_id) ==
    \A m \in organization_members :
        ~(m.organization_id = org_id /\ m.user_id = user_id)

\* A request to an organization route, past the middleware, as its
\* response tells it: the route and the organization name or invite token
\* of its path or body.
OrgRequest(kind, user, name, arg) ==
    [kind |-> kind, pc |-> "", user |-> "", name |-> name, vers |-> "",
     data |-> <<>>, crate_id |-> 0]

OrgAnswer(q, status, fault) == out' = Response(q, status, <<>>, fault)

OrgFrame ==
    UNCHANGED <<backend, files, objects, crates, crate_versions, inflight, accepted,
                admitted, last_failed, served, sessions, now, presented, logged_out>>

\* create_organization_handler: 409 when the name is taken (or the check
\* fails), then the INSERT of the organization and the INSERT of its
\* owner's membership, two statements.
CreateOrganization ==
    /\ \E u \in Users, name \in OrgNames :
          LET q      == OrgRequest("create_organization", u, name, "")
              org_id == Cardinality(organizations) + 1
              org    == [id |-> org_id, name |-> name, owner_id |-> u]
              member == [id |-> Cardinality(organization_members) + 1,
                         organization_id |-> org_id, user_id |-> u,
                         role |-> "owner", is_active |-> TRUE]
          IN  \/ /\ OrgAnswer(q, "CONFLICT", ~organization_exists(name))
                 /\ OrganizationsUnchanged
              \/ /\ ~organization_exists(name)
                 /\ OrgAnswer(q, "INTERNAL_SERVER_ERROR", TRUE)
                 /\ OrganizationsUnchanged
              \/ /\ ~organization_exists(name)
                 /\ organizations' = organizations \cup {org}
                 /\ OrgAnswer(q, "INTERNAL_SERVER_ERROR", TRUE)
                 /\ UNCHANGED <<organization_members, organization_invites>>
              \/ /\ ~organization_exists(name)
                 /\ organizations' = organizations \cup {org}
                 /\ organization_members' = organization_members \cup {member}
                 /\ OrgAnswer(q, "OK", FALSE)
                 /\ UNCHANGED organization_invites
    /\ OrgFrame

\* invite_user_handler
InviteUser ==
    /\ \E u \in Users, name \in OrgNames, invited \in Users, role \in Roles :
          LET q      == OrgRequest("invite", u, name, role)
              found  == get_organization_by_name(name)
              org    == CHOOSE o \in found : TRUE
              roles  == get_user_organization_role(u, org.id)
              invite == [id |-> Cardinality(organization_invites) + 1,
                         organization_id |-> org.id, email |-> email_of(invited),
                         role |-> role_to_str(role),
                         token |-> "t" \o ToString(Cardinality(organization_invites) + 1),
                         accepted |-> FALSE]
          IN  \/ /\ OrgAnswer(q, "INTERNAL_SERVER_ERROR", TRUE)
                 /\ OrganizationsUnchanged
              \/ /\ found = {}
                 /\ OrgAnswer(q, "NOT_FOUND", FALSE)
                 /\ OrganizationsUnchanged
              \/ /\ found # {}
                 /\ \A r \in roles : ~can_invite(r)
                 /\ OrgAnswer(q, "FORBIDDEN", FALSE)
                 /\ OrganizationsUnchanged
              \/ /\ found # {}
                 /\ \E r \in roles : can_invite(r)
                 /\ is_user_organization_member(email_of(invited), org.id)
                 /\ OrgAnswer(q, "CONFLICT", FALSE)
                 /\ OrganizationsUnchanged
              \/ /\ found # {}
                 /\ \E r \in roles : can_invite(r)
                 /\ Cardinality(organization_invites) < MaxInvites
                 /\ organization_invites' = organization_invites \cup {invite}
                 /\ out' = Response(q, "OK", invite.token,
                                    is_user_organization_member(email_of(invited), org.id))
                 /\ UNCHANGED <<organizations, organization_members>>
    /\ OrgFrame

\* accept_invite_handler and db::accept_organization_invite: the role of
\* the invite row is read back, the membership is inserted with it, and the
\* invite is marked accepted, two statements.
AcceptInvite ==
    /\ \E u \in Users, token \in {"t0"} \cup {i.token : i \in organization_invites} :
          LET q      == OrgRequest("accept_invite", u, token, "")
              found  == get_organization_invite_by_token(token)
              invite == CHOOSE i \in found : TRUE
              role   == role_from_str(invite.role)
              member == [id |-> Cardinality(organization_members) + 1,
                         organization_id |-> invite.organization_id, user_id |-> u,
                         role |-> role_to_str(role), is_active |-> TRUE]
          IN  \/ /\ OrgAnswer(q, "INTERNAL_SERVER_ERROR", TRUE)
                 /\ OrganizationsUnchanged
              \/ /\ found = {}
                 /\ OrgAnswer(q, "NOT_FOUND", FALSE)
                 /\ OrganizationsUnchanged
              \/ /\ found # {}
                 /\ email_of(u) # invite.email
                 /\ OrgAnswer(q, "FORBIDDEN", FALSE)
                 /\ OrganizationsUnchanged
              \/ /\ found # {}
                 /\ email_of(u) = invite.email
                 /\ organization_members_unique(invite.organization_id, u)
                 /\ organization_members' = organization_members \cup {member}
                 /\ \/ /\ organization_invites' =
                             (organization_invites \ {invite})
                                \cup {[invite EXCEPT !.accepted = TRUE]}
                       /\ out' = Response(q, "OK", role, FALSE)
                    \/ /\ UNCHANGED organization_invites
                       /\ OrgAnswer(q, "INTERNAL_SERVER_ERROR", TRUE)
                 /\ UNCHANGED organizations
    /\ OrgFrame

\* remove_member_handler: the caller's role in the organization of the
\* path, then the member row of the path's member id.
RemoveMember ==
    /\ \E u \in Users, name \in OrgNames,
          member_id \in {0} \cup {m.id : m \in organization_members} :
          LET q      == OrgRequest("remove_member", u, name, member_id)
              found  == get_organization_by_name(name)
              org    == CHOOSE o \in found : TRUE
              roles  == get_user_organization_role(u, org.id)
              rows   == get_organization_member(member_id)
              member == CHOOSE m \in rows : TRUE
          IN  \/ /\ OrgAnswer(q, "INTERNAL_SERVER_ERROR", TRUE)
                 /\ OrganizationsUnchanged
              \/ /\ found = {}
                 /\ OrgAnswer(q, "NOT_FOUND", FALSE)
                 /\ OrganizationsUnchanged
              \/ /\ found # {}
                 /\ \A r \in roles : ~can_manage_members(r)
                 /\ OrgAnswer(q, "FORBIDDEN", FALSE)
                 /\ OrganizationsUnchanged
              \/ /\ found # {}
                 /\ \E r \in roles : can_manage_members(r)
                 /\ rows = {}
                 /\ OrgAnswer(q, "NOT_FOUND", FALSE)
                 /\ OrganizationsUnchanged
              \/ /\ found # {}
                 /\ \E r \in roles : can_manage_members(r)
                 /\ rows # {}
                 /\ member.user_id = org.owner_id
                 /\ OrgAnswer(q, "BAD_REQUEST", FALSE)
                 /\ OrganizationsUnchanged
              \/ /\ found # {}
                 /\ \E r \in roles : can_manage_members(r)
                 /\ rows # {}
                 /\ member.user_id # org.owner_id
                 /\ organization_members' = remove_organization_member(member_id)
                 /\ OrgAnswer(q, "NO_CONTENT", FALSE)
                 /\ UNCHANGED <<organizations, organization_invites>>
    /\ OrgFrame

\* leave_organization_handler
LeaveOrganization ==
    /\ \E u \in Users, name \in OrgNames :
          LET q     == OrgRequest("leave", u, name, "")
              found == get_organization_by_name(name)
              org   == CHOOSE o \in found : TRUE
              rows  == get_user_organization_membership(u, org.id)
          IN  \/ /\ OrgAnswer(q, "INTERNAL_SERVER_ERROR", TRUE)
                 /\ OrganizationsUnchanged
              \/ /\ found = {}
                 /\ OrgAnswer(q, "NOT_FOUND", FALSE)
                 /\ OrganizationsUnchanged
              \/ /\ found # {}
                 /\ org.owner_id = u
                 /\ OrgAnswer(q, "BAD_REQUEST", FALSE)
                 /\ OrganizationsUnchanged
              \/ /\ found # {}
                 /\ org.owner_id # u
                 /\ rows = {}
                 /\ OrgAnswer(q, "NOT_FOUND", FALSE)
                 /\ OrganizationsUnchanged
              \/ /\ found # {}
                 /\ org.owner_id # u
                 /\ \E m \in rows :
                       organization_members' = remove_organization_member(m.id)
                 /\ OrgAnswer(q, "NO_CONTENT", FALSE)
                 /\ UNCHANGED <<organizations, organization_invites>>
    /\ OrgFrame

OrgNext ==
    \/ CreateOrganization
    \/ InviteUser
    \/ AcceptInvite
    \/ RemoveMember
    \/ LeaveOrganization

\* The organization routes, each request handled in one step.
SpecOrg == Init /\ [][OrgNext]_vars

\* The owner of the organization has an active membership row in it.
OwnerIsMember(org) ==
    \E m \in organization_members :
        m.organization_id = org.id /\ m.user_id = org.owner_id /\ m.is_active

\* C29 (as claimed): no create-organization, invite, accept-invite,
\* remove-member or leave request, by any user and for any member id,
\* deactivates the membership of an organization's owner: an owner with an
\* active membership row has one after every request.
C29_OwnerStaysMember ==
    [][ \A org \in organizations : OwnerIsMember(org) => OwnerIsMember(org)' ]_vars

\* C30 (as claimed): the membership row an accept inserts has the role the
\* invite row was created with, for each of Owner, Admin, Member and Viewer.
C30_AcceptGrantsInvitedRole ==
    [][ out'.kind = "accept_invite" =>
           \A m \in organization_members' \ organization_members :
              \A i \in get_organization_invite_by_token(out'.name) :
                 m.role = i.role ]_vars

====
